---- MODULE Spec2Model ----
(***************************************************************************)
(* Model of the dictionary server (dict_server.c): the command parser      *)
(* server_op_check, the file backend (server_write_key_value,              *)
(* server_read_key_value, server_delete_key_value), the response encoder   *)
(* in server_op_process and the accept/serve loop of dict_server_start.    *)
(*                                                                         *)
(* A C string is a sequence of one-character strings; the terminating zero *)
(* byte is the element NUL.  The results of the system calls (accept,      *)
(* recv, send, open, read, write, remove) are inputs of the actions.       *)
(***************************************************************************)
EXTENDS Integers, Sequences, FiniteSets, TLC

(* ---------------------------------------------------------------------- *)
(* Program constants                                                       *)
(* ---------------------------------------------------------------------- *)

SERVER_BUFFER_SIZE == 128

SERVER_MAX_ARGS == 2

SERVER_OP_NONE == 0

SERVER_OP_SET == 1

SERVER_OP_GET == 2

SERVER_OP_DEL == 3

SERVER_OK == 0

SERVER_E_OS == 1

SERVER_E_NULL == 2

SERVER_E_SIZE == 3

SERVER_E_BUFFER == 4

SERVER_E_INVALID == 5

SERVER_E_MISSING == 6

SERVER_E_TOO_MANY == 7

SERVER_E_NOT_FOUND == 8

\* The zero byte that ends a C string.
NUL == "NUL"

\* A null pointer to a string (no token, no argument).
NULL == <<>>

SERVER_GET_OP_STRING == <<"G", "E", "T">>

SERVER_SET_OP_STRING == <<"S", "E", "T">>

SERVER_DEL_OP_STRING == <<"D", "E", "L">>

SERVER_OK_RESPONSE == <<"O", "K", "\n">>

SERVER_NOTFOUND_RESPONSE == <<"N", "O", "T", "F", "O", "U", "N", "D", "\n">>

\* sizeof of a string literal: its characters and the terminating zero.
Sizeof(lit) == Len(lit) + 1

\* The first n bytes of the array a string literal denotes.
LiteralBytes(lit, n) == SubSeq(lit \o <<NUL>>, 1, n)

(* ---------------------------------------------------------------------- *)
(* Library string functions, as the parser uses them                       *)
(* ---------------------------------------------------------------------- *)

\* strstr(haystack, needle) != NULL
strstr(haystack, needle) ==
    \E i \in 1..(Len(haystack) - Len(needle) + 1) :
        SubSeq(haystack, i, i + Len(needle) - 1) = needle

\* delim = " \n"
IsDelim(c) == c \in {" ", "\n"}

\* The number of elements of s before the first one in the set stops.
Before(s, stops) ==
    LET at == {i \in 1..Len(s) : s[i] \in stops}
    IN  IF at = {} THEN Len(s)
        ELSE (CHOOSE i \in at : \A j \in at : i <= j) - 1

\* strspn(s, delim): the length of the run of delimiters s starts with.
strspn(s) == Before(s, {s[i] : i \in 1..Len(s)} \ {" ", "\n"})

\* strcspn(s, delim): the length of the run without delimiters s starts with.
strcspn(s) == Before(s, {" ", "\n"})

\* strtok_r(temp, delim, &temp): the token (NULL when none is left) and the
\* new value of temp, the text after the delimiter that ended the token.
strtok_r(s) ==
    LET start == strspn(s)
        t     == SubSeq(s, start + 1, Len(s))
        n     == strcspn(t)
    IN  IF t = <<>>
        THEN [token |-> NULL, rest |-> <<>>]
        ELSE [token |-> SubSeq(t, 1, n), rest |-> SubSeq(t, n + 2, Len(t))]

(* ---------------------------------------------------------------------- *)
(* Command parser                                                          *)
(* ---------------------------------------------------------------------- *)

\* memset(digest, 0, sizeof(*digest)): the two argument slots of server_op_t.
ZeroArgs == [i \in 0..(SERVER_MAX_ARGS - 1) |-> NULL]

\* What the build does after the store digest->args[2] = token, which is
\* outside the array (undefined behaviour).  gcc 12 keeps the comparison
\* of line 164 at -O0 ("as_written") and removes it at -O1 and -O2
\* ("no_test"): there every further token is stored, at index 3, 4, ...
AfterUB == {"as_written", "no_test"}

\* The while loop of server_op_check.  oob collects the indices outside
\* digest->args at which a token was stored.
RECURSIVE TokenLoop(_, _, _, _, _)
TokenLoop(temp, op_args, args, oob, after_ub) ==
    LET t == strtok_r(temp)
    IN  IF t.token = NULL
        THEN [err |-> SERVER_OK, op_args |-> op_args, args |-> args, oob |-> oob]
        ELSE IF op_args > SERVER_MAX_ARGS /\ after_ub = "as_written"
        THEN [err |-> SERVER_E_TOO_MANY, op_args |-> op_args, args |-> args,
              oob |-> oob]
        ELSE TokenLoop(t.rest, op_args + 1,
                       IF op_args \in DOMAIN args
                       THEN [args EXCEPT ![op_args] = t.token] ELSE args,
                       IF op_args \in DOMAIN args THEN oob ELSE oob \cup {op_args},
                       after_ub)

\* DetectOp with the operation taken from the first token of the buffer.
DetectOp_FirstToken(buffer) ==
    LET first == strtok_r(buffer).token
    IN  IF first = SERVER_GET_OP_STRING THEN SERVER_OP_GET
        ELSE IF first = SERVER_SET_OP_STRING THEN SERVER_OP_SET
        ELSE IF first = SERVER_DEL_OP_STRING THEN SERVER_OP_DEL
        ELSE SERVER_OP_NONE

\* The operation found by the three substring searches, GET first.
DetectOp(buffer) ==
    IF strstr(buffer, SERVER_GET_OP_STRING) THEN SERVER_OP_GET
    ELSE IF strstr(buffer, SERVER_SET_OP_STRING) THEN SERVER_OP_SET
    ELSE IF strstr(buffer, SERVER_DEL_OP_STRING) THEN SERVER_OP_DEL
    ELSE SERVER_OP_NONE

\* length < sizeof(SERVER_GET_OP_STRING): the int is converted to size_t for
\* the comparison, so a negative length is above every sizeof.
BelowSizeof(length, lit) == length >= 0 /\ length < Sizeof(lit)

\* server_op_check without the first strtok_r call: the first token is
\* stored as an argument.
server_op_check_KeepsFirst(buffer, length, after_ub) ==
    LET none == [op |-> SERVER_OP_NONE, args |-> ZeroArgs, oob |-> {}, op_args |-> 0]
    IN  IF BelowSizeof(length, SERVER_GET_OP_STRING)
        THEN [err |-> SERVER_E_SIZE] @@ none
        ELSE IF buffer = NULL \/ length = 0
        THEN [err |-> SERVER_E_NULL] @@ none
        ELSE LET op == DetectOp(buffer)
             IN  IF op = SERVER_OP_NONE
                 THEN [err |-> SERVER_E_INVALID] @@ none
                 ELSE LET loop  == TokenLoop(buffer, 0, ZeroArgs, {}, after_ub)
                          d     == [op |-> op, args |-> loop.args, oob |-> loop.oob,
                                    op_args |-> loop.op_args]
                      IN  IF loop.err # SERVER_OK
                          THEN [err |-> loop.err] @@ d
                          ELSE IF op = SERVER_OP_SET /\ loop.op_args # SERVER_MAX_ARGS
                          THEN [err |-> SERVER_E_MISSING] @@ d
                          ELSE IF op \in {SERVER_OP_GET, SERVER_OP_DEL}
                                  /\ loop.op_args # 1
                          THEN [err |-> SERVER_E_MISSING] @@ d
                          ELSE [err |-> SERVER_OK] @@ d

\* server_op_check(buffer, length, &digest): the returned code and the digest.
\* On the two early returns the digest is left as the caller zeroed it.  The
\* null pointer is NULL; a buffer that is not null holds at least one
\* character.
server_op_check(buffer, length, after_ub) ==
    LET none == [op |-> SERVER_OP_NONE, args |-> ZeroArgs, oob |-> {}, op_args |-> 0]
    IN  IF BelowSizeof(length, SERVER_GET_OP_STRING)
        THEN [err |-> SERVER_E_SIZE] @@ none
        ELSE IF buffer = NULL \/ length = 0
        THEN [err |-> SERVER_E_NULL] @@ none
        ELSE LET op == DetectOp(buffer)
             IN  IF op = SERVER_OP_NONE
                 THEN [err |-> SERVER_E_INVALID] @@ none
                 ELSE LET first == strtok_r(buffer)
                          loop  == TokenLoop(first.rest, 0, ZeroArgs, {}, after_ub)
                          d     == [op |-> op, args |-> loop.args, oob |-> loop.oob,
                                    op_args |-> loop.op_args]
                      IN  IF loop.err # SERVER_OK
                          THEN [err |-> loop.err] @@ d
                          ELSE IF op = SERVER_OP_SET /\ loop.op_args # SERVER_MAX_ARGS
                          THEN [err |-> SERVER_E_MISSING] @@ d
                          ELSE IF op \in {SERVER_OP_GET, SERVER_OP_DEL}
                                  /\ loop.op_args # 1
                          THEN [err |-> SERVER_E_MISSING] @@ d
                          ELSE [err |-> SERVER_OK] @@ d

(* ---------------------------------------------------------------------- *)
(* File backend.  files maps the name of every existing file of the        *)
(* working directory to its contents; os holds the results of the system   *)
(* calls of one request.                                                   *)
(* ---------------------------------------------------------------------- *)

OsOk == [open |-> "ok", io |-> "full", remove |-> "ok"]

OsResults ==
    { OsOk,
      [OsOk EXCEPT !.open = "fail"],      \* open() returns -1
      [OsOk EXCEPT !.io = "zero"],        \* read()/write() returns 0
      [OsOk EXCEPT !.io = "error"],       \* read()/write() returns -1
      [OsOk EXCEPT !.remove = "fail"] }   \* remove() returns non-zero

Min(a, b) == IF a < b THEN a ELSE b

\* The directory with file name holding exactly bytes.
PutFile(files, name, bytes) ==
    [n \in (DOMAIN files) \cup {name} |-> IF n = name THEN bytes ELSE files[n]]

\* The directory without file name.
RemoveFile(files, name) == [n \in (DOMAIN files) \ {name} |-> files[n]]

\* server_write_key_value(digest): open(O_WRONLY | O_CREAT | O_TRUNC) empties
\* the file, write() then stores the value; only cnt == 0 is an error.
server_write_key_value(digest, files, os) ==
    IF os.open = "fail"
    THEN [err |-> SERVER_E_OS, files |-> files]
    ELSE LET value == digest.args[1]
             cnt   == CASE os.io = "full"  -> Len(value)
                        [] os.io = "zero"  -> 0
                        [] os.io = "error" -> -1
             after == PutFile(files, digest.args[0],
                              IF cnt > 0 THEN SubSeq(value, 1, cnt) ELSE <<>>)
         IN  IF cnt = 0
             THEN [err |-> SERVER_E_OS, files |-> after]
             ELSE [err |-> SERVER_OK, files |-> after]

\* server_read_key_value(digest, buffer, buffer_size): the code and the bytes
\* read() put into the zero-filled buffer; only cnt == 0 is NOT_FOUND.
server_read_key_value(digest, files, buffer_size, os) ==
    IF digest.args[0] \notin DOMAIN files \/ os.open = "fail"
    THEN [err |-> SERVER_E_NOT_FOUND, buffer |-> <<>>]
    ELSE LET content == files[digest.args[0]]
             cnt     == CASE os.io = "full"  -> Min(Len(content), buffer_size)
                          [] os.io = "zero"  -> 0
                          [] os.io = "error" -> -1
         IN  IF cnt = 0
             THEN [err |-> SERVER_E_NOT_FOUND, buffer |-> <<>>]
             ELSE [err |-> SERVER_OK,
                   buffer |-> IF cnt > 0 THEN SubSeq(content, 1, cnt) ELSE <<>>]

\* server_delete_key_value(digest): remove() fails on a missing file.
server_delete_key_value(digest, files, os) ==
    IF digest.args[0] \in DOMAIN files /\ os.remove = "ok"
    THEN [err |-> SERVER_OK, files |-> RemoveFile(files, digest.args[0])]
    ELSE [err |-> SERVER_E_NOT_FOUND, files |-> files]

(* ---------------------------------------------------------------------- *)
(* Response encoder                                                        *)
(* ---------------------------------------------------------------------- *)

DigitChars == <<"0", "1", "2", "3", "4", "5", "6", "7", "8", "9">>

\* The text sprintf("%d") prints for n >= 0.
RECURSIVE Decimal(_)
Decimal(n) ==
    IF n < 10 THEN <<DigitChars[n + 1]>>
    ELSE Decimal(n \div 10) \o <<DigitChars[(n % 10) + 1]>>

\* sprintf(buffer, "ERROR:%d", err)
ErrorText(err) == <<"E", "R", "R", "O", "R", ":">> \o Decimal(err)

\* strlen: the bytes before the first zero byte.
strlen(s) == Before(s, {NUL})

\* One send(socket, bytes, n, MSG_DONTWAIT): the bytes handed over and
\* whether the call made progress (rt > 0).
SendCall(bytes, result) == [bytes |-> bytes, ok |-> (result = "ok")]

\* What a send can do: make progress, return -1 or 0, or, on a connection
\* the peer has closed, raise SIGPIPE (no flag MSG_NOSIGNAL is given and the
\* program installs no handler, so the signal ends the process).
SendResults == {"ok", "fail", "sigpipe"}

\* server_op_process(socket, digest): the backend call, then the sends.
\* snd[i] is the result of the i-th send.  backend is the backend's code,
\* err the code returned after the sends; signal tells that a send raised
\* SIGPIPE, in which case the function never returns.
\* adjacent is what follows the response buffer in memory, read by strcat and
\* strlen when the value fills the buffer.  top is the highest index of
\* buffer[] the GET path writes: the last byte read or, when strcat runs,
\* the zero after the appended newline.
server_op_process(digest, files, os, snd, adjacent) ==
    LET r == CASE digest.op = SERVER_OP_SET ->
                    server_write_key_value(digest, files, os) @@ [buffer |-> <<>>]
               [] digest.op = SERVER_OP_GET ->
                    server_read_key_value(digest, files, SERVER_BUFFER_SIZE, os)
                        @@ [files |-> files]
               [] digest.op = SERVER_OP_DEL ->
                    server_delete_key_value(digest, files, os) @@ [buffer |-> <<>>]
               [] OTHER ->
                    [err |-> SERVER_E_NOT_FOUND, files |-> files, buffer |-> <<>>]
        first == IF r.err = SERVER_OK
                 THEN LiteralBytes(SERVER_OK_RESPONSE, Sizeof(SERVER_OK_RESPONSE))
                 ELSE IF r.err = SERVER_E_NOT_FOUND
                 THEN LiteralBytes(SERVER_NOTFOUND_RESPONSE,
                                   Sizeof(SERVER_NOTFOUND_RESPONSE))
                 ELSE SubSeq(ErrorText(r.err), 1, strlen(ErrorText(r.err)))
        text == IF Len(r.buffer) < SERVER_BUFFER_SIZE
                THEN r.buffer ELSE r.buffer \o adjacent
        value == text \o <<"\n">>              \* strcat(buffer, "\n")
        second == IF r.err = SERVER_OK /\ digest.op = SERVER_OP_GET /\ snd[1] = "ok"
                  THEN <<SendCall(SubSeq(value, 1, strlen(value)), snd[2])>>
                  ELSE <<>>
        sends == <<SendCall(first, snd[1])>> \o second
    IN  [backend |-> r.err,
         err     |-> IF \E i \in 1..Len(sends) : ~sends[i].ok
                     THEN SERVER_E_OS ELSE r.err,
         files   |-> r.files,
         sends   |-> sends,
         signal  |-> \E i \in 1..Len(sends) : snd[i] = "sigpipe",
         top     |-> IF second = <<>> THEN Len(r.buffer) - 1 ELSE Len(value)]

(* ---------------------------------------------------------------------- *)
(* Requests the clients send                                               *)
(* ---------------------------------------------------------------------- *)

\* Bounds of the model.
MaxClients == 2

MaxUnread == 1

MaxExtraArgs == 2

Clients == 1..MaxClients

FOO == <<"F", "O", "O">>

Keywords == {SERVER_SET_OP_STRING, SERVER_GET_OP_STRING, SERVER_DEL_OP_STRING, FOO}

\* Keys and values: plain ones, and ones that contain a command keyword.
KeyTokens == {<<"x">>, <<"S", "E", "T", "x">>}

ValTokens == {<<"4", "2">>, <<"G", "E", "T", "v">>}

Filler == <<"z">>

\* No argument, a key, a key and a value, and a key and a value followed by
\* one to MaxExtraArgs more tokens.
ArgLists ==
    {<<>>} \cup {<<k>> : k \in KeyTokens}
           \cup {<<k, v>> : k \in KeyTokens, v \in ValTokens}
           \cup {<<<<"x">>, <<"4", "2">>>> \o [i \in 1..n |-> Filler] :
                     n \in 1..MaxExtraArgs}

\* The tokens separated by one space, ended by a newline.
RECURSIVE Line(_)
Line(tokens) ==
    IF Len(tokens) = 1 THEN Head(tokens) \o <<"\n">>
    ELSE Head(tokens) \o <<" ">> \o Line(Tail(tokens))

\* Messages shorter than a request can be: a keyword alone without its
\* newline, and a single character.
ShortMessages == {SERVER_GET_OP_STRING, FOO, <<"x">>}

\* A request that fills the receive buffer: `GET`, a space, a key and the
\* newline are SERVER_BUFFER_SIZE bytes.
LongKey == [i \in 1..(SERVER_BUFFER_SIZE - 5) |-> "k"]

LongMessage == Line(<<SERVER_GET_OP_STRING, LongKey>>)

Messages ==
    {Line(<<kw>> \o a) : kw \in Keywords, a \in ArgLists}
        \cup ShortMessages \cup {LongMessage}

\* What follows an array in memory, up to the first zero byte, when a text
\* that fills the array is read past its end (undefined behaviour): no byte
\* or one byte that is not zero.  gcc 12 puts the digest after the receive
\* buffer, and its op field, already set, is read as one more character.
Adjacent == {<<>>, <<"?">>}

\* The tokens of a message, split on space and newline.
RECURSIVE Tokens(_)
Tokens(s) ==
    LET t == strtok_r(s)
    IN  IF t.token = NULL THEN <<>> ELSE <<t.token>> \o Tokens(t.rest)

(* ---------------------------------------------------------------------- *)
(* GPIO instances (gpio.c)                                                 *)
(* ---------------------------------------------------------------------- *)

MAX_GPIO_INSTANCES == 10

\* Bound of the model: the instances created.
MaxGpio == 2

\* The ports and the bits the callers name.
Ports == {0, 1}

Bits == {0, 1}

\* static struct gpio_s instances[MAX_GPIO_INSTANCES] = {0}: the indices of
\* the array.  The model keeps the entries in use (index -> port, bit,
\* output); the others are as the initializer left them, zero and not used.
Indices == 0..(MAX_GPIO_INSTANCES - 1)

NoInstances == <<>>

\* One call of the HAL (hal.h).
HalCall(fn, port, bit, value) ==
    [fn |-> fn, port |-> port, bit |-> bit, value |-> value]

\* One call of the GPIO interface: the function, the instance it was given
\* or returned (an index of instances[], -1 for NULL), its boolean argument,
\* the HAL calls it made and what it returned.
GpioCall(fn, self, arg, hal, ret) ==
    [fn |-> fn, self |-> self, arg |-> arg, hal |-> hal, ret |-> ret]

NoCall == GpioCall("none", -1, FALSE, <<>>, FALSE)

(* ---------------------------------------------------------------------- *)
(* State                                                                   *)
(* ---------------------------------------------------------------------- *)

VARIABLES
    pc,        \* where dict_server_start is: "accept", "recv", "handle" (a
               \* message was received and is being checked and processed),
               \* "close", "exit" (after exit()), "killed" (by SIGPIPE)
    newfd,     \* the connection newfd refers to (0 before the first accept)
    sockets,   \* the accepted sockets the process has not closed
    len,       \* the value of the last recv()
    files,     \* the working directory: file name -> contents
    peer,      \* each client's end: "idle", "open", "shut" (closed), "reset"
    unread,    \* the messages sent on the accepted connection and not yet read
    backlog,   \* connections waiting in the listen queue, oldest first
    request,   \* the message in hand while pc = "handle", and after that the
               \* request handled by the step just taken (NoRequest when that
               \* step handled none)
    response,  \* the results of the system calls made for that request and
               \* what the server did with it
    recv_errno, \* errno of the recv of the step just taken when it returned
               \* -1, "none" otherwise
    expected,  \* <<key, value>> of the last faultless `SET key value` message,
               \* <<>> once a later SET or DEL message names that key
    instances, \* the static array of gpioAllocate
    gpio_call  \* the call of the GPIO interface made by the step just taken

server_vars == <<pc, newfd, sockets, len, files, peer, unread, backlog, request,
                 response, recv_errno, expected>>

gpio_vars == <<instances, gpio_call>>

vars == <<server_vars, gpio_vars>>

NoSends == <<>>

AllSendsOk == [i \in 1..2 |-> "ok"]

NoRequest ==
    [msg |-> <<>>, after_ub |-> "as_written", beyond |-> <<>>,
     check |-> [err |-> SERVER_OK, op |-> SERVER_OP_NONE, args |-> ZeroArgs,
                oob |-> {}, op_args |-> 0]]

NoResponse ==
    [os |-> OsOk, snd |-> AllSendsOk, processed |-> FALSE,
     backend |-> SERVER_OK, err |-> SERVER_OK, sends |-> NoSends, top |-> -1]

\* The request of the step just taken and what became of it, as one record.
last == request @@ response

\* A step that neither receives nor handles a message: the message in hand,
\* if there is one, stays in the buffer.
NoMessage ==
    /\ request' = (IF pc = "handle" THEN request ELSE NoRequest)
    /\ response' = NoResponse
    /\ recv_errno' = "none"

\* The server listens; no client has connected; the directory holds no key.
Init ==
    /\ pc = "accept"
    /\ newfd = 0
    /\ sockets = {}
    /\ len = 0
    /\ files = <<>>
    /\ peer = [c \in Clients |-> "idle"]
    /\ unread = 0
    /\ backlog = <<>>
    /\ request = NoRequest
    /\ response = NoResponse
    /\ recv_errno = "none"
    /\ expected = <<>>
    /\ instances = NoInstances
    /\ gpio_call = NoCall

(* ---------------------------------------------------------------------- *)
(* Clients                                                                 *)
(* ---------------------------------------------------------------------- *)

\* A client acts on its connection once the server has accepted it: what it
\* does while it waits in the listen queue reaches the server only after
\* accept, as if it had been done then.
Connect(c) ==
    /\ peer[c] = "idle"
    /\ c \notin sockets
    /\ peer' = [peer EXCEPT ![c] = "open"]
    /\ backlog' = Append(backlog, c)
    /\ NoMessage
    /\ UNCHANGED gpio_vars
    /\ UNCHANGED <<pc, newfd, sockets, len, files, unread, expected>>

ClientSend(c) ==
    /\ c = newfd
    /\ peer[c] = "open"
    /\ unread < MaxUnread
    /\ unread' = unread + 1
    /\ NoMessage
    /\ UNCHANGED gpio_vars
    /\ UNCHANGED <<pc, newfd, sockets, len, files, peer, backlog, expected>>

\* An orderly close: what was sent can still be read, then recv returns 0.
ClientClose(c) ==
    /\ c = newfd
    /\ peer[c] = "open"
    /\ peer' = [peer EXCEPT ![c] = "shut"]
    /\ NoMessage
    /\ UNCHANGED gpio_vars
    /\ UNCHANGED <<pc, newfd, sockets, len, files, unread, backlog, expected>>

\* A reset: unread data is dropped and the next recv fails.
ClientReset(c) ==
    /\ c = newfd
    /\ peer[c] = "open"
    /\ peer' = [peer EXCEPT ![c] = "reset"]
    /\ unread' = 0
    /\ NoMessage
    /\ UNCHANGED gpio_vars
    /\ UNCHANGED <<pc, newfd, sockets, len, files, backlog, expected>>

(* ---------------------------------------------------------------------- *)
(* Server: dict_server_start                                               *)
(* ---------------------------------------------------------------------- *)

\* HandleMessage with the error code of a rejected request sent to the client.
HandleMessage_ReplyOnError(check, dir, os, snd, adjacent) ==
    IF check.err # SERVER_OK
    THEN [processed |-> FALSE, backend |-> SERVER_OK, err |-> check.err,
          files |-> dir, sends |-> <<SendCall(ErrorText(check.err), snd[1])>>,
          signal |-> FALSE, top |-> -1]
    ELSE [processed |-> TRUE] @@ server_op_process(check, dir, os, snd, adjacent)

\* HandleMessage without the else: the digest is processed whatever the check
\* returned (a missing value is the empty string).
HandleMessage_NoElse(check, dir, os, snd, adjacent) ==
    [processed |-> TRUE] @@ server_op_process(check, dir, os, snd, adjacent)

\* The body of the receive loop for len > 0, after the receive: buffer[len] = 0
\* ends the text received, which is checked; only a request that passes the
\* check is processed and answered.
HandleMessage(check, dir, os, snd, adjacent) ==
    IF check.err # SERVER_OK
    THEN [processed |-> FALSE, backend |-> SERVER_OK, err |-> check.err,
          files |-> dir, sends |-> NoSends, signal |-> FALSE, top |-> -1]
    ELSE [processed |-> TRUE] @@ server_op_process(check, dir, os, snd, adjacent)

\* server_op_check on every request of the model.  after_ub matters only
\* when a token was stored outside the array.  A message of
\* SERVER_BUFFER_SIZE bytes leaves no room for buffer[len] = 0 inside the
\* buffer: the text the parser reads goes on with the bytes beyond it.
Requests ==
    { r \in { [msg |-> m, after_ub |-> u, beyond |-> b,
               check |-> server_op_check(m \o b, Len(m), u)] :
                  m \in Messages, u \in AfterUB, b \in Adjacent } :
        /\ r.check.oob = {} => r.after_ub = "as_written"
        /\ Len(r.msg) < SERVER_BUFFER_SIZE => r.beyond = <<>> }

\* The results of the system calls a request goes through; the ones it does
\* not reach are fixed, so that one run of the code is one step.
OsReached(check) ==
    IF check.err # SERVER_OK THEN {OsOk}
    ELSE CASE check.op = SERVER_OP_SET -> {os \in OsResults : os.remove = "ok"}
           [] check.op = SERVER_OP_GET ->
                  {os \in OsResults : os.remove = "ok" /\ os.io # "zero"}
           [] OTHER -> {os \in OsResults : os.open = "ok" /\ os.io = "full"}

SendsReached(h, snd) == \A i \in 1..2 : i > Len(h.sends) => snd[i] = "ok"

\* The bytes after the response buffer are read only when strcat starts
\* from a buffer without a zero byte: a GET of a value that fills it.
AdjacentReached(check, dir) ==
    IF /\ check.err = SERVER_OK
       /\ check.op = SERVER_OP_GET
       /\ check.args[0] \in DOMAIN dir
       /\ Len(dir[check.args[0]]) >= SERVER_BUFFER_SIZE
    THEN Adjacent ELSE {<<>>}

\* What a request means by its tokens: `SET key value` binds the key, any
\* other SET or DEL request for the bound key unbinds it.
Expect(exp, msg, os) ==
    LET tk == Tokens(msg)
    IN  IF Len(tk) = 3 /\ tk[1] = SERVER_SET_OP_STRING /\ os = OsOk
        THEN <<tk[2], tk[3]>>
        ELSE IF Len(tk) >= 2 /\ exp # <<>> /\ tk[2] = exp[1]
                /\ tk[1] \in {SERVER_SET_OP_STRING, SERVER_DEL_OP_STRING}
        THEN <<>>
        ELSE exp

\* accept() returns the oldest waiting connection.
Accept ==
    /\ pc = "accept"
    /\ backlog # <<>>
    /\ newfd' = Head(backlog)
    /\ backlog' = Tail(backlog)
    /\ sockets' = sockets \cup {Head(backlog)}
    /\ len' = 0
    /\ unread' = 0
    /\ pc' = "recv"
    /\ NoMessage
    /\ UNCHANGED gpio_vars
    /\ UNCHANGED <<files, peer, expected>>

\* accept() returns -1: exit(EXIT_FAILURE).
AcceptFail ==
    /\ pc = "accept"
    /\ pc' = "exit"
    /\ NoMessage
    /\ UNCHANGED gpio_vars
    /\ UNCHANGED <<newfd, sockets, len, files, peer, unread, backlog, expected>>

\* RecvData that can also run while a message is in hand.
RecvData_Pipelined ==
    /\ pc \in {"recv", "handle"}
    /\ peer[newfd] # "reset"
    /\ unread > 0
    /\ unread' = unread - 1
    /\ \E r \in Requests :
         /\ len' = Len(r.msg)
         /\ request' = r
    /\ response' = NoResponse
    /\ recv_errno' = "none"
    /\ pc' = "handle"
    /\ UNCHANGED gpio_vars
    /\ UNCHANGED <<newfd, sockets, files, peer, backlog, expected>>

\* recv() returns len > 0: a message is in the buffer.
RecvData ==
    /\ pc = "recv"
    /\ peer[newfd] # "reset"
    /\ unread > 0
    /\ unread' = unread - 1
    /\ \E r \in Requests :
         /\ len' = Len(r.msg)
         /\ request' = r
    /\ response' = NoResponse
    /\ recv_errno' = "none"
    /\ pc' = "handle"
    /\ UNCHANGED gpio_vars
    /\ UNCHANGED <<newfd, sockets, files, peer, backlog, expected>>

\* The message in hand is checked and, if the check passes, processed and
\* answered; then the loop goes back to recv.  A send raises SIGPIPE only if
\* the peer has closed its end; the signal ends the process, and with it
\* every socket it had open.
Handle ==
    /\ pc = "handle"
    /\ \E os \in OsReached(request.check), snd \in [1..2 -> SendResults],
          adjacent \in AdjacentReached(request.check, files) :
         /\ \A i \in 1..2 : snd[i] = "sigpipe" => peer[newfd] # "open"
         /\ LET h == HandleMessage(request.check, files, os, snd, adjacent)
            IN  /\ SendsReached(h, snd)
                /\ files' = h.files
                /\ response' = [os |-> os, snd |-> snd,
                                 processed |-> h.processed,
                                 backend |-> h.backend, err |-> h.err,
                                 sends |-> h.sends, top |-> h.top]
                /\ pc' = (IF h.signal THEN "killed" ELSE "recv")
                /\ sockets' = (IF h.signal THEN {} ELSE sockets)
         /\ expected' = Expect(expected, request.msg, os)
    /\ recv_errno' = "none"
    /\ UNCHANGED gpio_vars
    /\ UNCHANGED <<newfd, len, peer, unread, backlog, request>>

\* RecvError with the loop left when the peer reset the connection.
RecvError_EndsOnReset ==
    /\ pc = "recv"
    /\ \/ /\ peer[newfd] = "open"
          /\ unread = 0
          /\ peer' = peer
          /\ recv_errno' = "EAGAIN"
          /\ pc' = pc
       \/ /\ peer[newfd] = "reset"
          /\ peer' = [peer EXCEPT ![newfd] = "shut"]
          /\ recv_errno' = "ECONNRESET"
          /\ pc' = "close"
    /\ len' = -1
    /\ request' = NoRequest
    /\ response' = NoResponse
    /\ UNCHANGED gpio_vars
    /\ UNCHANGED <<newfd, sockets, files, unread, backlog, expected>>

\* recv() returns -1: nothing to read yet (EAGAIN), or the peer reset the
\* connection (ECONNRESET), after which the socket reads as closed.  Each
\* case of the switch ends in break, so the loop goes on.
RecvError ==
    /\ pc = "recv"
    /\ \/ /\ peer[newfd] = "open"
          /\ unread = 0
          /\ peer' = peer
          /\ recv_errno' = "EAGAIN"
       \/ /\ peer[newfd] = "reset"
          /\ peer' = [peer EXCEPT ![newfd] = "shut"]
          /\ recv_errno' = "ECONNRESET"
    /\ len' = -1
    /\ request' = NoRequest
    /\ response' = NoResponse
    /\ UNCHANGED gpio_vars
    /\ UNCHANGED <<pc, newfd, sockets, files, unread, backlog, expected>>

\* RecvZero with the loop going on after a receive of zero bytes.
RecvZero_KeepsPolling ==
    /\ pc = "recv"
    /\ peer[newfd] = "shut"
    /\ unread = 0
    /\ len' = 0
    /\ NoMessage
    /\ UNCHANGED gpio_vars
    /\ UNCHANGED <<pc, newfd, sockets, files, peer, unread, backlog, expected>>

\* recv() returns 0: the peer closed and everything was read; the loop ends.
RecvZero ==
    /\ pc = "recv"
    /\ peer[newfd] = "shut"
    /\ unread = 0
    /\ len' = 0
    /\ pc' = "close"
    /\ NoMessage
    /\ UNCHANGED gpio_vars
    /\ UNCHANGED <<newfd, sockets, files, peer, unread, backlog, expected>>

\* Close without the close(newfd).
Close_NoClose ==
    /\ pc = "close"
    /\ peer' = [peer EXCEPT ![newfd] = "idle"]
    /\ newfd' = 0
    /\ pc' = "accept"
    /\ NoMessage
    /\ UNCHANGED gpio_vars
    /\ UNCHANGED <<sockets, len, files, unread, backlog, expected>>

\* close(newfd), then back to accept; newfd goes out of scope.
Close ==
    /\ pc = "close"
    /\ sockets' = sockets \ {newfd}
    /\ peer' = [peer EXCEPT ![newfd] = "idle"]
    /\ newfd' = 0
    /\ pc' = "accept"
    /\ NoMessage
    /\ UNCHANGED gpio_vars
    /\ UNCHANGED <<len, files, unread, backlog, expected>>

Server ==
    Accept \/ AcceptFail \/ RecvData \/ Handle \/ RecvError \/ RecvZero \/ Close

Client == \E c \in Clients : Connect(c) \/ ClientSend(c) \/ ClientClose(c) \/ ClientReset(c)

Next == Server \/ Client

Spec == Init /\ [][Next]_vars

\* The server is one thread that runs whenever it can: an accept with a
\* client waiting returns, a recv at end of stream returns, and close
\* returns.  Nothing is assumed about accept succeeding.
FairSpec ==
    Spec /\ WF_vars(Accept) /\ WF_vars(RecvZero) /\ WF_vars(Close)

(* ---------------------------------------------------------------------- *)
(* server_op_check on its own, called with any buffer and any length       *)
(* ---------------------------------------------------------------------- *)

\* The lengths a caller can pass: none, too short, the text's own, and a
\* negative one.
Lengths(buffer) == {-1, 0, 1, 3, 4, Len(buffer)}

ParserInit ==
    /\ pc = "call"
    /\ \E b \in Messages \cup {NULL}, u \in AfterUB :
         /\ request = [NoRequest EXCEPT !.msg = b, !.after_ub = u]
         /\ len \in Lengths(b)
    /\ newfd = 0
    /\ sockets = {}
    /\ files = <<>>
    /\ peer = [c \in Clients |-> "idle"]
    /\ unread = 0
    /\ backlog = <<>>
    /\ response = NoResponse
    /\ recv_errno = "none"
    /\ expected = <<>>
    /\ instances = NoInstances
    /\ gpio_call = NoCall

\* err = server_op_check(buffer, length, &digest)
Call ==
    /\ pc = "call"
    /\ pc' = "return"
    /\ request' = [request EXCEPT
                     !.check = server_op_check(request.msg, len, request.after_ub)]
    /\ UNCHANGED gpio_vars
    /\ UNCHANGED <<newfd, sockets, len, files, peer, unread, backlog, response,
                   recv_errno, expected>>

ParserNext == Call

ParserSpec == ParserInit /\ [][ParserNext]_vars

(* ---------------------------------------------------------------------- *)
(* server_op_process on a store that holds a value of any length           *)
(* ---------------------------------------------------------------------- *)

\* The sizes of the storage unit: the small ones, and the ones around the
\* size of the response buffer.  A key is a path, so the unit can be any
\* file the server can open, whoever wrote it.
ValueLengths == (0..3) \cup ((SERVER_BUFFER_SIZE - 4)..(SERVER_BUFFER_SIZE + 3))

StoredValue(n) == [i \in 1..n |-> "v"]

ProcessInit ==
    /\ pc = "process"
    /\ request \in {r \in Requests : r.check.err = SERVER_OK}
    /\ \E n \in ValueLengths : files = PutFile(<<>>, <<"x">>, StoredValue(n))
    /\ newfd = 0
    /\ sockets = {}
    /\ len = Len(request.msg)
    /\ peer = [c \in Clients |-> "idle"]
    /\ unread = 0
    /\ backlog = <<>>
    /\ response = NoResponse
    /\ recv_errno = "none"
    /\ expected = <<>>
    /\ instances = NoInstances
    /\ gpio_call = NoCall

\* err = server_op_process(newfd, &digest), on a socket whose peer is there.
Process ==
    /\ pc = "process"
    /\ pc' = "done"
    /\ \E os \in OsReached(request.check),
          snd \in [1..2 -> SendResults \ {"sigpipe"}],
          adjacent \in AdjacentReached(request.check, files) :
         LET p == server_op_process(request.check, files, os, snd, adjacent)
         IN  /\ SendsReached(p, snd)
             /\ files' = p.files
             /\ response' = [os |-> os, snd |-> snd, processed |-> TRUE,
                              backend |-> p.backend, err |-> p.err,
                              sends |-> p.sends, top |-> p.top]
    /\ UNCHANGED gpio_vars
    /\ UNCHANGED <<newfd, sockets, len, peer, unread, backlog, request,
                   recv_errno, expected>>

ProcessNext == Process

ProcessSpec == ProcessInit /\ [][ProcessNext]_vars

(* ---------------------------------------------------------------------- *)
(* The GPIO interface                                                      *)
(* ---------------------------------------------------------------------- *)

\* The instances handed out: the handles a caller can hold.  The functions
\* are only given handles that gpioCreate returned.
Handles == DOMAIN instances

\* gpioAllocate(): the first instance not in use, marked used; NULL (-1)
\* when none is left.
gpioAllocate ==
    LET free == Indices \ Handles
    IN  IF free = {}
        THEN [self |-> -1, instances |-> instances]
        ELSE LET index == CHOOSE i \in free : \A j \in free : i <= j
             IN  [self |-> index,
                  instances |->
                      [i \in Handles \cup {index} |->
                          IF i = index
                          THEN [port |-> 0, bit |-> 0, output |-> FALSE]
                          ELSE instances[i]]]

\* gpioCreate(port, bit)
gpioCreate(port, bit) ==
    /\ Cardinality(Handles) < MaxGpio
    /\ LET a == gpioAllocate
       IN  /\ instances' =
                 (IF a.self # -1
                  THEN [a.instances EXCEPT ![a.self].port = port,
                                           ![a.self].bit = bit,
                                           ![a.self].output = FALSE]
                  ELSE a.instances)
           /\ gpio_call' = GpioCall("gpioCreate", a.self, FALSE, <<>>, FALSE)
    /\ UNCHANGED server_vars

\* gpioSetOutput(self, output)
gpioSetOutput(self, output) ==
    /\ self \in Handles
    /\ instances' = [instances EXCEPT ![self].output = output]
    /\ gpio_call' =
         GpioCall("gpioSetOutput", self, output,
                  <<HalCall("hal_gpio_set_direction", instances[self].port,
                            instances[self].bit, output)>>, FALSE)
    /\ UNCHANGED server_vars

\* gpioSetState(self, state): state is not used; an output instance has its
\* direction set again.
gpioSetState(self, state) ==
    /\ self \in Handles
    /\ gpio_call' =
         GpioCall("gpioSetState", self, state,
                  IF instances[self].output
                  THEN <<HalCall("hal_gpio_set_direction", instances[self].port,
                                 instances[self].bit, instances[self].output)>>
                  ELSE <<>>, FALSE)
    /\ UNCHANGED instances
    /\ UNCHANGED server_vars

\* gpioGetState(self): what hal_gpio_get_input returns, the level of the pin.
gpioGetState(self) ==
    /\ self \in Handles
    /\ \E input \in BOOLEAN :
         gpio_call' =
             GpioCall("gpioGetState", self, FALSE,
                      <<HalCall("hal_gpio_get_input", instances[self].port,
                                instances[self].bit, input)>>, input)
    /\ UNCHANGED instances
    /\ UNCHANGED server_vars

GpioNext ==
    \/ \E port \in Ports, bit \in Bits : gpioCreate(port, bit)
    \/ \E self \in Indices, output \in BOOLEAN :
          gpioSetOutput(self, output)
    \/ \E self \in Indices, state \in BOOLEAN :
          gpioSetState(self, state)
    \/ \E self \in Indices : gpioGetState(self)

GpioSpec == Init /\ [][GpioNext]_vars

(* ---------------------------------------------------------------------- *)
(* Properties                                                              *)
(* ---------------------------------------------------------------------- *)

\* The step just taken handled a request.
Handled == pc # "handle" /\ last.msg # <<>>

LastTokens == Tokens(last.msg)

AllSent == \A i \in 1..Len(last.sends) : last.sends[i].ok

ERROR_PREFIX == <<"E", "R", "R", "O", "R", ":">>

\* C1: round trip with full replacement.  When a faultless `SET k v` was
\* handled and no later SET or DEL message named k, a faultless `GET k` is
\* answered with OK and then exactly v and a newline.
C1_RoundTrip ==
    (/\ Handled
     /\ expected # <<>>
     /\ LastTokens = <<SERVER_GET_OP_STRING, expected[1]>>
     /\ last.os = OsOk
     /\ AllSent)
    => /\ Len(last.sends) = 2
       /\ last.sends[2].bytes = expected[2] \o <<"\n">>

\* C2: delete then read.  Handling `DEL k` for an existing key k (remove()
\* not failing) leaves no file k, and `GET k` for a missing key is processed
\* with the result NOT_FOUND.
C2_DeleteThenRead ==
    [][\A k \in KeyTokens :
         /\ (pc = "handle" /\ pc' # "handle" /\ last'.msg = Line(<<SERVER_DEL_OP_STRING, k>>)
                /\ k \in DOMAIN files /\ last'.os = OsOk)
            => k \notin DOMAIN files'
         /\ (pc = "handle" /\ pc' # "handle" /\ last'.msg = Line(<<SERVER_GET_OP_STRING, k>>)
                /\ k \notin DOMAIN files)
            => (last'.processed /\ last'.backend = SERVER_E_NOT_FOUND)]_vars

\* C3: exact response bytes.  For a processed request other than a successful
\* GET exactly one send is made and its bytes are those of the response
\* table: OK and a newline (3 bytes) for a successful SET or DEL, NOTFOUND
\* and a newline (9 bytes) for NOT_FOUND, ERROR: and the decimal code for
\* any other code.
C3_ExactResponseBytes ==
    (last.processed
        /\ ~(last.backend = SERVER_OK /\ last.check.op = SERVER_OP_GET))
    => /\ Len(last.sends) = 1
       /\ last.sends[1].bytes =
            (IF last.backend = SERVER_OK THEN SERVER_OK_RESPONSE
             ELSE IF last.backend = SERVER_E_NOT_FOUND THEN SERVER_NOTFOUND_RESPONSE
             ELSE ERROR_PREFIX \o Decimal(last.backend))

\* C4: encoding of a successful GET.  The first send is OK and a newline;
\* the second send is made only if the first made progress, and it is the
\* bytes read from the key's file followed by one newline.
C4_GetSuccessEncoding ==
    (last.processed /\ last.backend = SERVER_OK /\ last.check.op = SERVER_OP_GET)
    => LET read == IF last.os.io = "full" THEN files[last.check.args[0]] ELSE <<>>
       IN  /\ last.sends[1].bytes = SERVER_OK_RESPONSE
           /\ Len(last.sends) = (IF last.sends[1].ok THEN 2 ELSE 1)
           /\ Len(last.sends) = 2 => last.sends[2].bytes = read \o <<"\n">>

\* C5 as claimed: a request rejected with INVALID or MISSING is answered
\* with ERROR: and the code, and the server goes on serving.
C5_RejectedAnswered ==
    (Handled /\ last.check.err \in {SERVER_E_INVALID, SERVER_E_MISSING})
    => /\ Len(last.sends) = 1
       /\ last.sends[1].bytes = ERROR_PREFIX \o Decimal(last.check.err)
       /\ pc = "recv"

\* C5 as amended: a request rejected with INVALID or MISSING gets no
\* response at all: nothing is sent for it, and the server goes on serving
\* the same open connection.
C5_RejectedSilently ==
    (Handled /\ last.check.err \in {SERVER_E_INVALID, SERVER_E_MISSING})
    => /\ last.sends = <<>>
       /\ ~last.processed
       /\ pc = "recv" /\ newfd \in sockets

\* An unknown keyword was rejected with INVALID.
C5_Witness ==
    /\ Handled
    /\ last.msg = Line(<<FOO, <<"x">>>>)
    /\ last.check.err = SERVER_E_INVALID

\* C6: a request the parser rejects changes nothing in the store: the set
\* of files and every file's contents are the same after the step.
C6_RejectedLeavesStore ==
    [][(last'.msg # <<>> /\ last'.check.err # SERVER_OK) => files' = files]_vars

\* `SET x` was rejected with MISSING and no file x exists, while another key
\* is stored.
C6_Witness ==
    /\ Handled
    /\ last.msg = Line(<<SERVER_SET_OP_STRING, <<"x">>>>)
    /\ last.check.err = SERVER_E_MISSING
    /\ DOMAIN files = {<<"S", "E", "T", "x">>}

\* C7: a request of a known command with three or more arguments is
\* rejected with TOO_MANY.
C7_OverArgumentRejected ==
    (Handled /\ last.check.op # SERVER_OP_NONE /\ Len(LastTokens) - 1 >= 3)
    => last.check.err = SERVER_E_TOO_MANY

\* C8: the parser stores no token at an index of args that is
\* SERVER_MAX_ARGS or more.
C8_ArgsArrayBound ==
    Handled => \A i \in last.check.oob : i < SERVER_MAX_ARGS

\* C9: at most one accepted socket is open; the server is in accept only
\* with no accepted socket open, and while it serves, the open socket is the
\* one it serves.
C9_SingleConnection ==
    /\ Cardinality(sockets) <= 1
    /\ pc = "accept" => sockets = {}
    /\ pc \in {"recv", "close"} => sockets = {newfd}

\* One connection is served while another waits in the listen queue.
C9_Witness ==
    /\ pc = "recv"
    /\ sockets = {newfd}
    /\ backlog # <<>>
    /\ DOMAIN files # {}

\* The parts of C10 that do not depend on accept: once recv can only return
\* zero bytes the loop ends, the socket is closed and the server is back in
\* accept with no accepted socket open; the loop ends only on a receive of
\* zero bytes.
C10_ZeroEndsServing ==
    /\ (pc = "recv" /\ peer[newfd] = "shut" /\ unread = 0)
           ~> (pc = "accept" /\ sockets = {})
    /\ [](pc = "close" => len = 0)
    /\ [](pc = "accept" => sockets = {})

\* C10 as claimed: clean disconnect, and a client waiting while the server
\* is back in accept is eventually accepted.
C10_CleanDisconnect_Claimed ==
    /\ C10_ZeroEndsServing
    /\ \A c \in Clients :
         (pc = "accept" /\ backlog # <<>> /\ Head(backlog) = c)
             ~> (pc = "recv" /\ newfd = c /\ c \in sockets)

\* C10 as amended: clean disconnect, and a client waiting while the server
\* is back in accept is eventually accepted, unless accept itself fails,
\* which ends the process.
C10_CleanDisconnect ==
    /\ C10_ZeroEndsServing
    /\ \A c \in Clients :
         (pc = "accept" /\ backlog # <<>> /\ Head(backlog) = c)
             ~> ((pc = "recv" /\ newfd = c /\ c \in sockets) \/ pc = "exit")

\* The server is back in accept after a connection was served and closed,
\* and the next client waits to be accepted.
C10_Witness ==
    /\ pc = "accept"
    /\ sockets = {}
    /\ backlog # <<>>
    /\ DOMAIN files # {}

\* C11: after a handled request that ended in a parse error, a backend
\* error or a send that made no progress, the server is in the receive loop
\* with the same accepted socket open.
C11_ErrorsRecoverable ==
    (Handled /\ (last.check.err # SERVER_OK \/ last.backend # SERVER_OK \/ ~AllSent))
    => (pc = "recv" /\ sockets = {newfd})

\* C12: a handled message made the server attempt at least one send if and
\* only if server_op_check returned OK for it.
C12_ResponseIffParsed ==
    Handled => (Len(last.sends) >= 1 <=> last.check.err = SERVER_OK)

\* A request whose backend call failed was still answered.
C12_Witness ==
    /\ Handled
    /\ last.processed
    /\ last.backend = SERVER_E_OS
    /\ Len(last.sends) = 1

\* server_op_check has returned.
Returned == pc = "return"

\* The digest and the code server_op_check returned.
digest == request.check

\* The text needle occurs in text.
Occurs(needle, text) ==
    \E i \in 0..(Len(text) - Len(needle)) :
        \A j \in 1..Len(needle) : text[i + j] = needle[j]

\* C13: called with a buffer and a length of 0 or more, server_op_check
\* returns E_SIZE exactly when the length is below 3, the length of the
\* shortest keyword.
C13_MinimumSize ==
    (Returned /\ request.msg # NULL /\ len >= 0)
    => (digest.err = SERVER_E_SIZE <=> len < Len(SERVER_GET_OP_STRING))

\* C14: called with a null buffer or with length 0, server_op_check returns
\* E_NULL.
C14_NullInput ==
    (Returned /\ (request.msg = NULL \/ len = 0)) => digest.err = SERVER_E_NULL

C17_SetFailureReported ==
    (Handled /\ last.processed /\ last.check.op = SERVER_OP_SET
        /\ (last.os.open = "fail" \/ last.os.io # "full"))
    => /\ last.backend = SERVER_E_OS
       /\ last.sends[1].bytes = ERROR_PREFIX \o Decimal(SERVER_E_OS)

\* C18: a GET has the backend code NOT_FOUND when the key's file is absent,
\* cannot be opened or is empty, and the code OK only when at least one
\* byte of the value was read.
C18_GetNotFound ==
    (Handled /\ last.processed /\ last.check.op = SERVER_OP_GET)
    => LET k == last.check.args[0]
       IN  /\ (k \notin DOMAIN files \/ last.os.open = "fail" \/ files[k] = <<>>)
                => last.backend = SERVER_E_NOT_FOUND
           /\ last.backend = SERVER_OK
                => (k \in DOMAIN files /\ last.os.io = "full" /\ Len(files[k]) >= 1)

C20_OneAtATime ==
    /\ [][pc = "handle"
            => /\ request' = request
               /\ len' = len
               /\ pc' # "handle"
                    => /\ response'.processed = (request.check.err = SERVER_OK)
                       /\ Len(response'.sends) >= 1 <=> response'.processed]_vars
    /\ [][pc # "handle"
            => /\ response'.sends = NoSends
               /\ files' = files
               /\ pc' = "handle" => (pc = "recv" /\ request'.msg # <<>>)]_vars

\* A message is being handled while the next one already waits on the socket.
C20_Witness ==
    /\ pc = "handle"
    /\ unread > 0
    /\ DOMAIN files # {}

\* The name of an operation.
OpString(op) ==
    CASE op = SERVER_OP_SET -> SERVER_SET_OP_STRING
      [] op = SERVER_OP_GET -> SERVER_GET_OP_STRING
      [] op = SERVER_OP_DEL -> SERVER_DEL_OP_STRING
      [] OTHER -> NULL

\* C21: the operation run for a request that passed the parser is the one
\* its first token names.
C21_OperationMatchesFirstToken ==
    (/\ Handled
     /\ last.processed
     /\ LastTokens[1] \in {OpString(op) : op \in {SERVER_OP_SET, SERVER_OP_GET,
                                                 SERVER_OP_DEL}})
        => LastTokens[1] = OpString(last.check.op)

\* buffer[len] = 0: the index at which the serving loop ends the text.
TerminatorIndex == len

\* C22: the zero that ends a received message is written inside the
\* receive buffer.
C22_ReceiveBufferBound ==
    (pc = "handle" \/ Handled) => TerminatorIndex \in 0..(SERVER_BUFFER_SIZE - 1)

\* C23: whatever the length of the stored value, the bytes GET reads, the
\* newline appended to them and the zero after it are inside the response
\* buffer.
C23_ResponseBufferBound ==
    (pc = "done" /\ request.check.op = SERVER_OP_GET)
        => response.top < SERVER_BUFFER_SIZE

\* C24: gpioSetState on an output instance makes one HAL call,
\* hal_gpio_set_output with the port and the bit of the instance and the
\* state asked for; on any other instance it makes none.
C24_SetStateDrivesOutput ==
    gpio_call.fn = "gpioSetState"
        => LET self == instances[gpio_call.self]
           IN  gpio_call.hal =
                   IF self.output
                   THEN <<HalCall("hal_gpio_set_output", self.port, self.bit,
                                  gpio_call.arg)>>
                   ELSE <<>>

====
